---- MODULE Spec2Model ----
(***************************************************************************)
(* Model of sqlalchemy.ext.hybrid: the hybrid_property descriptor, its     *)
(* copy-on-rebind decorators, the memoized class-level factory and the     *)
(* ExprComparator it produces.                                             *)
(*                                                                         *)
(* Python objects are records tagged by a field t; callables supplied by   *)
(* the declaring class are named by strings and their behaviour is given   *)
(* by CallOnInstance / CallOnClass / CallSetter / CallDeleter / CallUpdater*)
(* (the Interval example of the module docstring).  Every invocation of a  *)
(* user callable made by the last operation is logged in calls.            *)
(***************************************************************************)
EXTENDS Integers, Sequences, FiniteSets, TLC

\* Bounds of the model: number of hybrid_property objects ever constructed,
\* number of threads making class-level accesses, number of class-level
\* accesses the threads make in all, number of hybrid_method objects ever
\* constructed.
MaxHybrids == 2
MaxThreads == 2
MaxAccess == 3
MaxMethods == 2

None == "None"

(***************************************************************************)
(* The host program: two mapped classes, one instance, user callables.     *)
(***************************************************************************)
Classes == {"Interval", "SubInterval"}

\* owner.__mro__ (object, whose __dict__ holds no hybrid, is left out)
mro(c) == IF c = "SubInterval" THEN <<"SubInterval", "Interval">> ELSE <<"Interval">>

Getters     == {"get_length", "get_start_point"}
Setters     == {"set_length"}
Deleters    == {"del_length"}
Exprs       == {"expr_abs_length"}
Comparators == {"cmp_start"}
Updaters    == {"upd_length"}

\* fn.__name__ : the name of the def statement, under which a class body binds
\* the decorated result
FnName(f) ==
    CASE f = "get_start_point"             -> "start_point"
      [] f \in {"get_radius", "expr_radius"} -> "radius"
      [] f = "get_diameter"                -> "diameter"
      [] OTHER                             -> "length"

Names == {"length", "start_point", "radius", "diameter"}

\* fn.__doc__
FnDoc(f) ==
    CASE f = "get_length"      -> "doc:get_length"
      [] f = "expr_abs_length" -> "doc:expr_abs_length"
      [] OTHER                 -> None

\* values passed to __set__ and to _bulk_update_tuples
SetValues  == {12}
BulkValues == {25}

\* ---- Python values ----
NoneVal        == [t |-> "NoneType"]
PyList(s)      == [t |-> "list", items |-> s]
PyInt(n)       == [t |-> "int", v |-> n]
ClassRef(c)    == [t |-> "class", cls |-> c]
InstanceRef    == [t |-> "instance", id |-> "i1"]
HybridRef(h)   == [t |-> "hybrid_property", h |-> h]
\* an ordinary mapped attribute cls.key (attributes.QueryableAttribute)
QA(c, k)       == [t |-> "QueryableAttribute", cls |-> c, key |-> k]
\* expression nodes of sqlalchemy.sql (ColumnElement)
Bin(o, l, r)   == [t |-> "BinaryExpression", op |-> o, left |-> l, right |-> r]
Func(n, a)     == [t |-> "Function", name |-> n, arg |-> a]

\* fn(instance) for a value getter
CallOnInstance(f, i) ==
    CASE f = "get_length"      -> PyInt(i.end - i.start)
      [] f = "get_start_point" -> PyInt(i.start)
      [] OTHER                 -> [t |-> "result", of |-> f]

\* fn(cls) for a callable evaluated against the class
CallOnClass(f, c) ==
    CASE f = "get_length"      -> Bin("sub", QA(c, "end"), QA(c, "start"))
      [] f = "get_start_point" -> QA(c, "start")
      [] f = "expr_abs_length" -> Func("abs", Bin("sub", QA(c, "end"), QA(c, "start")))
      [] f = "cmp_start"       -> [t |-> "Comparator", expression |-> QA(c, "start")]

\* fset(instance, value): self.end = self.start + value
CallSetter(f, i, v) == [i EXCEPT !.end = i.start + v]

\* fdel(instance): self.end = self.start
CallDeleter(f, i) == [i EXCEPT !.end = i.start]

\* the Column an ordinary mapped attribute stands for
Column(c, k)   == [t |-> "Column", cls |-> c, key |-> k]

\* update_expr(cls, value): [(cls.end, cls.start + value)]
CallUpdater(f, c, v) == PyList(<< <<QA(c, "end"), Bin("add", QA(c, "start"), v)>> >>)

Call(f, a) == [fn |-> f, args |-> a]

VARIABLES
    hybrids,    \* heap of hybrid_property objects, by identity 1..Len(hybrids)
    classDict,  \* cls.__dict__ restricted to hybrids: name -> identity or 0
    inst,       \* the fields of the one instance
    last,       \* the operation performed last
    calls,      \* user callables invoked by the last operation, in order
    ret,        \* value returned by the last descriptor operation
    out,        \* value returned by the last operation on the view held in ret
    err,        \* exception raised by the last operation
    threads,    \* position of each thread inside a class-level access
    published,  \* the factories stored as hybrid 1's _expr_comparator, in order
    tally,      \* per owner: class-level accesses completed, builder calls made
    methods,    \* heap of hybrid_method objects, by identity 1..Len(methods)
    fnDocs,     \* __doc__ of the functions given to hybrid_method
    stack       \* class-level accesses in progress, the innermost last

vars == <<hybrids, classDict, inst, last, calls, ret, out, err,
          threads, published, tally, methods, fnDocs, stack>>

\* the variables of the threaded class-level access (SpecMemo); the
\* single-threaded operations leave them alone
threadVars == <<threads, published, tally>>

Threads == 1..MaxThreads

\* pc: where the thread is; owner: the class of its access; local: the
\* factory it holds, by the thread that computed it (0: none); computed: it
\* ran the body of _expr_comparator; used: the factory its last access called
IdleThread == [pc |-> "idle", owner |-> None, local |-> 0, computed |-> FALSE, used |-> 0]

InitThreads ==
    /\ threads = [t \in Threads |-> IdleThread]
    /\ published = <<>>
    /\ tally = [c \in Classes |-> [accesses |-> 0, builds |-> 0]]

\* the variables of hybrid_method (SpecMethod) and of a class-level access
\* whose builder reads another hybrid (SpecNested); the other operations
\* leave them alone
otherVars == <<methods, fnDocs, stack>>

\* functions decorated with hybrid_method and given to its expression
\* decorator
MethodFuncs == {"contains", "intersects"}
MethodExprs == {"contains_expr"}

\* fn.__doc__ as written in the def statement (None: no docstring)
MethodFnDoc(f) == IF f = "contains" THEN "doc:contains" ELSE None

InitOthers ==
    /\ methods = <<>>
    /\ fnDocs = [f \in MethodFuncs \cup MethodExprs |-> MethodFnDoc(f)]
    /\ stack = <<>>

(***************************************************************************)
(* hybrid_property                                                         *)
(***************************************************************************)
PublicKeys == {"fget", "fset", "fdel", "expr", "custom_comparator", "update_expr"}

NoMemo == [kind |-> "unset", fn |-> None]

\* mutant: __name__ and __doc__ are taken from the expression builder when
\* there is one
Construct_NameFromExpr(kw) ==
    [fget              |-> kw.fget,
     fset              |-> kw.fset,
     fdel              |-> kw.fdel,
     expr              |-> kw.expr,
     custom_comparator |-> kw.custom_comparator,
     update_expr       |-> kw.update_expr,
     name              |-> FnName(IF kw.expr # None THEN kw.expr ELSE kw.fget),
     doc               |-> FnDoc(IF kw.expr # None THEN kw.expr ELSE kw.fget),
     memo              |-> NoMemo]

\* hybrid_property.__init__: the six fields, then util.update_wrapper(self,
\* fget) which sets __name__ and __doc__ from fget.  _expr_comparator (memo)
\* is absent from __dict__ until the first class-level access.
Construct(kw) ==
    [fget              |-> kw.fget,
     fset              |-> kw.fset,
     fdel              |-> kw.fdel,
     expr              |-> kw.expr,
     custom_comparator |-> kw.custom_comparator,
     update_expr       |-> kw.update_expr,
     name              |-> FnName(kw.fget),
     doc               |-> FnDoc(kw.fget),
     memo              |-> NoMemo]

\* mutant: the copy starts from the getter alone
Copy_Fresh(self, key, value) ==
    Construct([k \in PublicKeys |->
                  IF k = key THEN value
                  ELSE IF k = "fget" THEN self.fget ELSE None])

\* mutant: every key of __dict__ is carried over, the memoized factory too
Copy_KeepMemo(self, key, value) ==
    [Construct([k \in PublicKeys |-> IF k = key THEN value ELSE self[k]])
        EXCEPT !.memo = self.memo]

\* hybrid_property._copy: the keys of __dict__ not starting with "_" (the six
\* fields), overridden by kw, passed to type(self)(**defaults)
Copy(self, key, value) ==
    Construct([k \in PublicKeys |-> IF k = key THEN value ELSE self[k]])

Fields(hp) == [k \in PublicKeys |-> hp[k]]

\* mutant: the fallback getter is used even though an expression builder is
\* attached
ExprComparatorMemo_IgnoreExpr(hp) ==
    IF hp.custom_comparator # None
    THEN [kind |-> "comparator", fn |-> hp.custom_comparator]
    ELSE [kind |-> "expr", fn |-> hp.fget]

\* mutant: the expression builder is tested before the custom comparator
ExprComparatorMemo_ExprFirst(hp) ==
    IF hp.expr # None
    THEN [kind |-> "expr", fn |-> hp.expr]
    ELSE IF hp.custom_comparator # None
    THEN [kind |-> "comparator", fn |-> hp.custom_comparator]
    ELSE [kind |-> "expr", fn |-> hp.fget]

\* memoized_property _expr_comparator: which callable the class-level factory
\* closes over.  kind "comparator": _get_comparator(custom_comparator);
\* kind "expr": _get_expr(fn), whose _expr(cls) wraps fn(cls) in an
\* ExprComparator.
ExprComparatorMemo(hp) ==
    IF hp.custom_comparator # None
    THEN [kind |-> "comparator", fn |-> hp.custom_comparator]
    ELSE IF hp.expr # None
    THEN [kind |-> "expr", fn |-> hp.expr]
    ELSE [kind |-> "expr", fn |-> hp.fget]

\* ExprComparator.__init__
ExprComparator(c, expression, h) ==
    [t |-> "ExprComparator", cls |-> c, expression |-> expression, hybrid |-> h]

\* mutant: the comparator is bound to the base of the owner's ancestry
ComparatorFor_BaseClass(memo, h, owner) ==
    LET base == mro(owner)[Len(mro(owner))] IN
    IF memo.kind = "expr"
    THEN ExprComparator(base, CallOnClass(memo.fn, owner), h)
    ELSE CallOnClass(memo.fn, owner)

\* _get_expr._expr(cls) / the custom comparator factory, applied to owner
ComparatorFor(memo, h, owner) ==
    IF memo.kind = "expr"
    THEN ExprComparator(owner, CallOnClass(memo.fn, owner), h)
    ELSE CallOnClass(memo.fn, owner)

UNKNOWN_ATTR_KEY == "_UNKNOWN_ATTR_KEY"

\* getattr(cls, name) of the host language: the first class of cls.__mro__
\* whose __dict__ holds the name (0: no hybrid under that name)
RECURSIVE MroFind(_, _, _)
MroFind(cd, n, m) ==
    IF m = <<>> THEN 0
    ELSE IF cd[Head(m)][n] # 0 THEN cd[Head(m)][n]
    ELSE MroFind(cd, n, Tail(m))

ClassAttr(cd, c, n) == MroFind(cd, n, mro(c))

\* mutant: the loop stops at the first class declaring the name, whatever
\* object that class binds to it
RECURSIVE MroName_StopsAtFirst(_, _, _, _)
MroName_StopsAtFirst(cd, h, name, m) ==
    IF m = <<>> THEN UNKNOWN_ATTR_KEY
    ELSE IF cd[Head(m)][name] # 0
         THEN (IF cd[Head(m)][name] = h THEN name ELSE UNKNOWN_ATTR_KEY)
    ELSE MroName_StopsAtFirst(cd, h, name, Tail(m))

\* the for/else loop of expr_comparator over owner.__mro__
RECURSIVE MroName(_, _, _, _)
MroName(cd, h, name, m) ==
    IF m = <<>> THEN UNKNOWN_ATTR_KEY
    ELSE IF cd[Head(m)][name] # 0 /\ cd[Head(m)][name] = h THEN name
    ELSE MroName(cd, h, name, Tail(m))

\* mutant: the comparator is built for the class that heads the ancestry,
\* where the hybrid was first declared
ExprComparatorCall_DeclaringClass(cd, hp, memo, h, owner) ==
    [t          |-> "Proxy",
     owner      |-> owner,
     key        |-> MroName(cd, h, hp.name, mro(owner)),
     hybrid     |-> h,
     comparator |-> ComparatorFor(memo, h, mro(owner)[Len(mro(owner))]),
     doc        |-> IF FnDoc(memo.fn) # None THEN FnDoc(memo.fn) ELSE hp.doc]

\* _get_comparator.expr_comparator(owner): the proxied attribute
ExprComparatorCall(cd, hp, memo, h, owner) ==
    [t          |-> "Proxy",
     owner      |-> owner,
     key        |-> MroName(cd, h, hp.name, mro(owner)),
     hybrid     |-> h,
     comparator |-> ComparatorFor(memo, h, owner),
     doc        |-> IF FnDoc(memo.fn) # None THEN FnDoc(memo.fn) ELSE hp.doc]

\* the factory held by self._expr_comparator after this access
MemoAfter(hp) == IF hp.memo = NoMemo THEN ExprComparatorMemo(hp) ELSE hp.memo

NoErr == None
\* operation, receiver, instance, owner class, callable argument, value
\* argument; via tells a modifying decorator reached through .overrides
OpVia(o, h, i, c, f, v, via) ==
    [op |-> o, h |-> h, instance |-> i, owner |-> c, fn |-> f, value |-> v,
     via |-> via]
Op(o, h, i, c, f, v) == OpVia(o, h, i, c, f, v, None)

\* Arguments of the constructor call that builds the first hybrid: the
\* decorator form hybrid_property(fget), the getter with a setter and a
\* deleter attached, and the getter with a custom comparator attached.
Kw(g, s, d, e, c, u) ==
    [fget |-> g, fset |-> s, fdel |-> d, expr |-> e,
     custom_comparator |-> c, update_expr |-> u]

InitKw ==
    { Kw("get_start_point", None, None, None, None, None),
      Kw("get_length", "set_length", "del_length", None, None, None),
      Kw("get_length", None, None, None, "cmp_start", None) }

\* class Interval: <name> = hybrid_property(...);  i1 = SubInterval(5, 10)
Init ==
    /\ \E kw \in InitKw :
          /\ hybrids = << Construct(kw) >>
          /\ classDict = [c \in Classes |-> [n \in Names |->
                             IF c = "Interval" /\ n = FnName(kw.fget) THEN 1 ELSE 0]]
          /\ last = Op("__init__", 1, None, "Interval", kw.fget, 0)
    /\ inst = [start |-> 5, end |-> 10]
    /\ calls = <<>>
    /\ ret = HybridRef(1)
    /\ out = NoneVal
    /\ err = NoErr
    /\ InitThreads
    /\ InitOthers

\* mutant: an attached expression builder is also used for instances
GetOutcome_ExprOnInstance(hs, cd, i, h, instance, owner) ==
    LET hp == hs[h]
        f  == IF hp.expr # None THEN hp.expr ELSE hp.fget IN
    IF owner = None THEN
        [hybrids |-> hs, calls |-> <<>>, ret |-> HybridRef(h)]
    ELSE IF instance = None THEN
        LET memo == MemoAfter(hp) IN
        [hybrids |-> [hs EXCEPT ![h].memo = memo],
         calls   |-> << Call(memo.fn, <<ClassRef(owner)>>) >>,
         ret     |-> ExprComparatorCall(cd, hp, memo, h, owner)]
    ELSE
        [hybrids |-> hs,
         calls   |-> << Call(f, <<InstanceRef>>) >>,
         ret     |-> CallOnInstance(f, i)]

\* mutant: the view is built only by the access that creates the factory
GetOutcome_BuildsOnce(hs, cd, i, h, instance, owner) ==
    LET hp == hs[h] IN
    IF owner = None THEN
        [hybrids |-> hs, calls |-> <<>>, ret |-> HybridRef(h)]
    ELSE IF instance = None THEN
        LET memo == MemoAfter(hp) IN
        [hybrids |-> [hs EXCEPT ![h].memo = memo],
         calls   |-> IF hp.memo = NoMemo
                     THEN << Call(memo.fn, <<ClassRef(owner)>>) >> ELSE <<>>,
         ret     |-> ExprComparatorCall(cd, hp, memo, h, owner)]
    ELSE
        [hybrids |-> hs,
         calls   |-> << Call(hp.fget, <<InstanceRef>>) >>,
         ret     |-> CallOnInstance(hp.fget, i)]

\* mutant: the instance is tested before the owner
GetOutcome_InstanceFirst(hs, cd, i, h, instance, owner) ==
    LET hp == hs[h] IN
    IF instance # None THEN
        [hybrids |-> hs,
         calls   |-> << Call(hp.fget, <<InstanceRef>>) >>,
         ret     |-> CallOnInstance(hp.fget, i)]
    ELSE IF owner = None THEN
        [hybrids |-> hs, calls |-> <<>>, ret |-> HybridRef(h)]
    ELSE
        LET memo == MemoAfter(hp) IN
        [hybrids |-> [hs EXCEPT ![h].memo = memo],
         calls   |-> << Call(memo.fn, <<ClassRef(owner)>>) >>,
         ret     |-> ExprComparatorCall(cd, hp, memo, h, owner)]

\* mutant: an instance access also creates the class-level factory
GetOutcome_EagerFactory(hs, cd, i, h, instance, owner) ==
    LET hp == hs[h] IN
    IF owner = None THEN
        [hybrids |-> hs, calls |-> <<>>, ret |-> HybridRef(h)]
    ELSE IF instance = None THEN
        LET memo == MemoAfter(hp) IN
        [hybrids |-> [hs EXCEPT ![h].memo = memo],
         calls   |-> << Call(memo.fn, <<ClassRef(owner)>>) >>,
         ret     |-> ExprComparatorCall(cd, hp, memo, h, owner)]
    ELSE
        [hybrids |-> [hs EXCEPT ![h].memo = MemoAfter(hp)],
         calls   |-> << Call(hp.fget, <<InstanceRef>>) >>,
         ret     |-> CallOnInstance(hp.fget, i)]

\* hybrid_property.__get__(instance, owner): the heap, the callables invoked
\* and the value returned
GetOutcome(hs, cd, i, h, instance, owner) ==
    LET hp == hs[h] IN
    IF owner = None THEN
        [hybrids |-> hs, calls |-> <<>>, ret |-> HybridRef(h)]
    ELSE IF instance = None THEN
        \* self._expr_comparator(owner)
        LET memo == MemoAfter(hp) IN
        [hybrids |-> [hs EXCEPT ![h].memo = memo],
         calls   |-> << Call(memo.fn, <<ClassRef(owner)>>) >>,
         ret     |-> ExprComparatorCall(cd, hp, memo, h, owner)]
    ELSE
        \* self.fget(instance)
        [hybrids |-> hs,
         calls   |-> << Call(hp.fget, <<InstanceRef>>) >>,
         ret     |-> CallOnInstance(hp.fget, i)]

Get(h, instance, owner) ==
    /\ h \in 1..Len(hybrids)
    /\ last' = Op("__get__", h, instance, owner, None, 0)
    /\ LET o == GetOutcome(hybrids, classDict, inst, h, instance, owner) IN
       /\ hybrids' = o.hybrids
       /\ calls' = o.calls
       /\ ret' = o.ret
    /\ out' = NoneVal
    /\ err' = NoErr
    /\ UNCHANGED <<classDict, inst>>
    /\ UNCHANGED threadVars
    /\ UNCHANGED otherVars

CantSet == "AttributeError: can't set attribute"
CantDelete == "AttributeError: can't delete attribute"

\* mutant: the missing setter is not detected
SetOutcome_NoCheck(hp, i, v) ==
    [err   |-> NoErr,
     calls |-> IF hp.fset = None THEN <<>>
               ELSE << Call(hp.fset, <<InstanceRef, PyInt(v)>>) >>,
     inst  |-> IF hp.fset = None THEN i ELSE CallSetter(hp.fset, i, v)]

\* mutant: the setter is called but its effect on the instance is lost
SetOutcome_EffectLost(hp, i, v) ==
    IF hp.fset = None
    THEN [err |-> CantSet, calls |-> <<>>, inst |-> i]
    ELSE [err   |-> NoErr,
          calls |-> << Call(hp.fset, <<InstanceRef, PyInt(v)>>) >>,
          inst  |-> i]

\* hybrid_property.__set__(instance, value)
SetOutcome(hp, i, v) ==
    IF hp.fset = None
    THEN [err |-> CantSet, calls |-> <<>>, inst |-> i]
    ELSE [err   |-> NoErr,
          calls |-> << Call(hp.fset, <<InstanceRef, PyInt(v)>>) >>,
          inst  |-> CallSetter(hp.fset, i, v)]

Set(h, v) ==
    /\ h \in 1..Len(hybrids)
    /\ last' = Op("__set__", h, "i1", None, None, v)
    /\ LET o == SetOutcome(hybrids[h], inst, v) IN
       /\ err' = o.err
       /\ calls' = o.calls
       /\ inst' = o.inst
    /\ ret' = NoneVal
    /\ out' = NoneVal
    /\ UNCHANGED <<hybrids, classDict>>
    /\ UNCHANGED threadVars
    /\ UNCHANGED otherVars

\* mutant: the deleter test reads the setter field
DeleteOutcome_TestsSetter(hp, i) ==
    IF hp.fset = None
    THEN [err |-> CantDelete, calls |-> <<>>, inst |-> i]
    ELSE [err   |-> NoErr,
          calls |-> << Call(hp.fdel, <<InstanceRef>>) >>,
          inst  |-> CallDeleter(hp.fdel, i)]

\* hybrid_property.__delete__(instance)
DeleteOutcome(hp, i) ==
    IF hp.fdel = None
    THEN [err |-> CantDelete, calls |-> <<>>, inst |-> i]
    ELSE [err   |-> NoErr,
          calls |-> << Call(hp.fdel, <<InstanceRef>>) >>,
          inst  |-> CallDeleter(hp.fdel, i)]

Delete(h) ==
    /\ h \in 1..Len(hybrids)
    /\ last' = Op("__delete__", h, "i1", None, None, 0)
    /\ LET o == DeleteOutcome(hybrids[h], inst) IN
       /\ err' = o.err
       /\ calls' = o.calls
       /\ inst' = o.inst
    /\ ret' = NoneVal
    /\ out' = NoneVal
    /\ UNCHANGED <<hybrids, classDict>>
    /\ UNCHANGED threadVars
    /\ UNCHANGED otherVars

\* hybrid_property.overrides, reached through the class-level view held in
\* ret (SuperClass.foobar.overrides): return self
Overrides ==
    /\ ret.t = "Proxy"
    /\ last' = Op("overrides", ret.hybrid, None, None, None, 0)
    /\ ret' = HybridRef(ret.hybrid)
    /\ calls' = <<>>
    /\ out' = NoneVal
    /\ err' = NoErr
    /\ UNCHANGED <<hybrids, classDict, inst>>
    /\ UNCHANGED threadVars
    /\ UNCHANGED otherVars

\* mutant: the field is also assigned on self
RebindHeap_InPlace(hs, h, key, f) ==
    Append([hs EXCEPT ![h][key] = f], Copy(hs[h], key, f))

\* mutant: the new object starts with the memoized factory of its source
RebindHeap_SharesMemo(hs, h, key, f) ==
    Append(hs, [Copy(hs[h], key, f) EXCEPT !.memo = hs[h].memo])

\* self.<key>(fn) -> self._copy(<key>=fn): the heap after the call; the new
\* object is the last one
RebindHeap(hs, h, key, f) == Append(hs, Copy(hs[h], key, f))

\* A modifying decorator.  decl is the class whose body applies the decorator
\* (the result is then bound there under the decorated function's name), or
\* None when the result is bound in no class.
Rebind(o, h, key, f, decl) ==
    /\ h \in 1..Len(hybrids)
    /\ Len(hybrids) < MaxHybrids
    /\ LET new == Len(hybrids) + 1 IN
       /\ hybrids' = RebindHeap(hybrids, h, key, f)
       /\ ret' = HybridRef(new)
       /\ classDict' = IF decl = None THEN classDict
                       ELSE [classDict EXCEPT ![decl][FnName(f)] = new]
    /\ last' = OpVia(o, h, None, decl, f, 0,
                      IF last.op = "overrides" /\ last.h = h
                      THEN "overrides" ELSE None)
    /\ calls' = <<>>
    /\ out' = NoneVal
    /\ err' = NoErr
    /\ UNCHANGED inst
    /\ UNCHANGED threadVars
    /\ UNCHANGED otherVars

\* hybrid_property.getter
Getter(h, f, decl) == Rebind("getter", h, "fget", f, decl)
\* hybrid_property.setter
Setter(h, f, decl) == Rebind("setter", h, "fset", f, decl)
\* hybrid_property.deleter
Deleter(h, f, decl) == Rebind("deleter", h, "fdel", f, decl)
\* hybrid_property.expression
Expression(h, f, decl) == Rebind("expression", h, "expr", f, decl)
\* hybrid_property.comparator
Comparator(h, f, decl) == Rebind("comparator", h, "custom_comparator", f, decl)
\* hybrid_property.update_expression
UpdateExpression(h, f, decl) == Rebind("update_expression", h, "update_expr", f, decl)

RebindOps == {"getter", "setter", "deleter", "expression", "comparator", "update_expression"}

\* the field a modifying decorator replaces
KeyOf(o) ==
    CASE o = "getter"            -> "fget"
      [] o = "setter"            -> "fset"
      [] o = "deleter"           -> "fdel"
      [] o = "expression"        -> "expr"
      [] o = "comparator"        -> "custom_comparator"
      [] o = "update_expression" -> "update_expr"

(***************************************************************************)
(* ExprComparator                                                          *)
(***************************************************************************)
\* isinstance(x, attributes.QueryableAttribute)
IsQueryableAttribute(x) == x.t = "QueryableAttribute"

\* QueryableAttribute._bulk_update_tuples of an ordinary mapped attribute:
\* the pair (its column, value)
QABulkUpdateTuples(qa, v) == PyList(<< <<Column(qa.cls, qa.key), v>> >>)

QABulk == "QueryableAttribute._bulk_update_tuples"

\* mutant: the update-clause builder is tested first
BulkUpdateTuples_BuilderFirst(self, hs, v) ==
    IF hs[self.hybrid].update_expr # None THEN
        [calls |-> << Call(hs[self.hybrid].update_expr, <<ClassRef(self.cls), v>>) >>,
         out   |-> CallUpdater(hs[self.hybrid].update_expr, self.cls, v)]
    ELSE IF IsQueryableAttribute(self.expression) THEN
        [calls |-> << Call(QABulk, <<self.expression, v>>) >>,
         out   |-> QABulkUpdateTuples(self.expression, v)]
    ELSE
        [calls |-> <<>>,
         out   |-> PyList(<< <<self.expression, v>> >>)]

\* mutant: the fallback pair is keyed by the comparator, not by its expression
BulkUpdateTuples_KeyedBySelf(self, hs, v) ==
    IF IsQueryableAttribute(self.expression) THEN
        [calls |-> << Call(QABulk, <<self.expression, v>>) >>,
         out   |-> QABulkUpdateTuples(self.expression, v)]
    ELSE IF hs[self.hybrid].update_expr # None THEN
        [calls |-> << Call(hs[self.hybrid].update_expr, <<ClassRef(self.cls), v>>) >>,
         out   |-> CallUpdater(hs[self.hybrid].update_expr, self.cls, v)]
    ELSE
        [calls |-> <<>>,
         out   |-> PyList(<< <<self, v>> >>)]

\* mutant: without a builder a compound expression yields no target at all
BulkUpdateTuples_DropsCompound(self, hs, v) ==
    IF IsQueryableAttribute(self.expression) THEN
        [calls |-> << Call(QABulk, <<self.expression, v>>) >>,
         out   |-> QABulkUpdateTuples(self.expression, v)]
    ELSE IF hs[self.hybrid].update_expr # None THEN
        [calls |-> << Call(hs[self.hybrid].update_expr, <<ClassRef(self.cls), v>>) >>,
         out   |-> CallUpdater(hs[self.hybrid].update_expr, self.cls, v)]
    ELSE
        [calls |-> <<>>,
         out   |-> PyList(<<>>)]

\* ExprComparator._bulk_update_tuples(value)
BulkUpdateTuples(self, hs, v) ==
    IF IsQueryableAttribute(self.expression) THEN
        [calls |-> << Call(QABulk, <<self.expression, v>>) >>,
         out   |-> QABulkUpdateTuples(self.expression, v)]
    ELSE IF hs[self.hybrid].update_expr # None THEN
        [calls |-> << Call(hs[self.hybrid].update_expr, <<ClassRef(self.cls), v>>) >>,
         out   |-> CallUpdater(hs[self.hybrid].update_expr, self.cls, v)]
    ELSE
        [calls |-> <<>>,
         out   |-> PyList(<< <<self.expression, v>> >>)]

\* the view held in ret is bound to an ExprComparator
HoldsExprComparator ==
    /\ ret.t = "Proxy"
    /\ ret.comparator.t = "ExprComparator"

BulkUpdate(v) ==
    /\ HoldsExprComparator
    /\ last' = Op("_bulk_update_tuples", ret.hybrid, None, ret.owner, None, v)
    /\ LET o == BulkUpdateTuples(ret.comparator, hybrids, PyInt(v)) IN
       /\ calls' = o.calls
       /\ out' = o.out
    /\ err' = NoErr
    /\ UNCHANGED <<hybrids, classDict, inst, ret>>
    /\ UNCHANGED threadVars
    /\ UNCHANGED otherVars

(***************************************************************************)
(* Comparator.__clause_element__, ExprComparator.operate / reverse_operate *)
(***************************************************************************)
\* Comparator.__init__
ComparatorObj(expression) == [t |-> "Comparator", expression |-> expression]

\* an object of the caller that exposes __clause_element__() and returns v
HasClauseElement(v) == [t |-> "HasClauseElement", yields |-> v]
\* sqlalchemy.sql nodes built by the operators and by literal coercion
Unary(o, e)      == [t |-> "UnaryExpression", op |-> o, element |-> e]
BindParameter(v) == [t |-> "BindParameter", value |-> v]

\* is_has_clause_element(x): x has a __clause_element__ method
IsHasClauseElement(x) ==
    x.t \in {"QueryableAttribute", "Comparator", "ExprComparator", "HasClauseElement"}

\* isinstance(x, ColumnElement)
IsColumnElement(x) ==
    x.t \in {"Column", "BinaryExpression", "UnaryExpression", "Function", "BindParameter"}

\* Comparator.__clause_element__: expr.__clause_element__() when expr has the
\* method (a mapped attribute gives its column, a comparator answers by this
\* same method, any other object gives what its method returns), else expr
RECURSIVE ClauseElementOf(_)
ClauseElementOf(self) ==
    LET expr == self.expression IN
    IF IsHasClauseElement(expr) THEN
        CASE expr.t = "QueryableAttribute" -> Column(expr.cls, expr.key)
          [] expr.t = "HasClauseElement"   -> expr.yields
          [] OTHER                         -> ClauseElementOf(expr)
    ELSE expr

InvalidExpressionType == "InvalidExpressionType"

\* mutant: the result is checked at run time
ClauseElementOutcome_Checked(self) ==
    IF IsColumnElement(ClauseElementOf(self))
    THEN [out |-> ClauseElementOf(self), err |-> NoErr]
    ELSE [out |-> NoneVal, err |-> InvalidExpressionType]

\* mutant: an expression without __clause_element__ is wrapped as a literal
ClauseElementOutcome_WrapsLiteral(self) ==
    [out |-> IF IsHasClauseElement(self.expression) \/ IsColumnElement(self.expression)
             THEN ClauseElementOf(self)
             ELSE BindParameter(self.expression),
     err |-> NoErr]

\* the call comparator.__clause_element__(): the two isinstance assertions are
\* under TYPE_CHECKING and never run, so no path raises
ClauseElementOutcome(self) == [out |-> ClauseElementOf(self), err |-> NoErr]

\* what the expression library's coercion makes of an operand: the clause
\* element of an object that has one, a node as it is, a literal otherwise
Adapt(x) ==
    IF x.t = "QueryableAttribute" THEN Column(x.cls, x.key)
    ELSE IF x.t = "HasClauseElement" THEN x.yields
    ELSE IF x.t \in {"Comparator", "ExprComparator"} THEN ClauseElementOf(x)
    ELSE IF IsColumnElement(x) THEN x
    ELSE BindParameter(x)

Adaptable(x) == IsColumnElement(Adapt(x))

\* op(*args) for an operator function of sqlalchemy.sql.operators: a new node
\* over the coerced operands, or the coercion error
ApplyOp(op, args) ==
    IF \A k \in 1..Len(args) : Adaptable(args[k])
    THEN [out |-> IF Len(args) = 1 THEN Unary(op, Adapt(args[1]))
                  ELSE Bin(op, Adapt(args[1]), Adapt(args[2])),
          err |-> NoErr]
    ELSE [out |-> NoneVal, err |-> InvalidExpressionType]

\* operator functions, and the number of arguments each takes
Ops == {"gt", "add", "neg"}
Arity(op) == IF op = "neg" THEN 1 ELSE 2

\* operand tuples passed after op, by number
OperandTuples ==
    << <<>>,
       << PyInt(5) >>,
       << QA("Interval", "end") >>,
       << HasClauseElement(PyInt(5)) >> >>

\* the comparator the caller applies an operation to: the one held directly,
\* or the one of the view
Receiver == IF ret.t = "Proxy" THEN ret.comparator ELSE ret

\* mutant: the operands come first
OperateOutcome_OperandsFirst(self, op, other) == ApplyOp(op, other \o <<self.expression>>)

\* ExprComparator.operate(op, *other)
OperateOutcome(self, op, other) == ApplyOp(op, <<self.expression>> \o other)

Operate(op, k) ==
    /\ Receiver.t = "ExprComparator"
    /\ Arity(op) = 1 + Len(OperandTuples[k])
    /\ last' = Op("operate", Receiver.hybrid, None, Receiver.cls, op, k)
    /\ LET o == OperateOutcome(Receiver, op, OperandTuples[k]) IN
       /\ out' = o.out
       /\ err' = o.err
    /\ calls' = << Call(op, <<Receiver.expression>> \o OperandTuples[k]) >>
    /\ UNCHANGED <<hybrids, classDict, inst, ret>>
    /\ UNCHANGED threadVars
    /\ UNCHANGED otherVars

\* mutant: the operand order of operate
ReverseOperateOutcome_NotReversed(self, op, other) == ApplyOp(op, <<self.expression, other>>)

\* ExprComparator.reverse_operate(op, other)
ReverseOperateOutcome(self, op, other) == ApplyOp(op, <<other, self.expression>>)

ReverseOperate(op, k) ==
    /\ Receiver.t = "ExprComparator"
    /\ Arity(op) = 2
    /\ Len(OperandTuples[k]) = 1
    /\ last' = Op("reverse_operate", Receiver.hybrid, None, Receiver.cls, op, k)
    /\ LET o == ReverseOperateOutcome(Receiver, op, OperandTuples[k][1]) IN
       /\ out' = o.out
       /\ err' = o.err
    /\ calls' = << Call(op, <<OperandTuples[k][1], Receiver.expression>>) >>
    /\ UNCHANGED <<hybrids, classDict, inst, ret>>
    /\ UNCHANGED threadVars
    /\ UNCHANGED otherVars

\* attribute names read on a bound comparator
AttrKeys == {"info", "__doc__", "key", "type"}

\* getattr(x, key) where x has the attribute: the value x holds for it
AttrOf(x, key) == [t |-> "attribute", of |-> x, key |-> key]

\* x has an attribute key: mapped attributes and expression nodes have a key,
\* a type and an info; plain values and bare comparators do not
HasAttr(x, key) ==
    x.t \in {"QueryableAttribute", "Column", "BinaryExpression", "UnaryExpression",
             "Function", "BindParameter"}

NoAttribute == "AttributeError"

\* mutant: info is forwarded to the expression like any other name
GetAttrOutcome_InfoForwarded(self, key) ==
    IF key = "__doc__" THEN [out |-> NoneVal, err |-> NoErr, self |-> self]
    ELSE IF HasAttr(self.expression, key)
    THEN [out |-> AttrOf(self.expression, key), err |-> NoErr, self |-> self]
    ELSE [out |-> NoneVal, err |-> NoAttribute, self |-> self]

\* mutant: the first read replaces the expression by its clause element
GetAttrOutcome_NormalisesExpression(self, key) ==
    LET after == [self EXCEPT !.expression = ClauseElementOf(self)] IN
    IF key = "info"
    THEN [out |-> AttrOf(HybridRef(self.hybrid), "info"), err |-> NoErr, self |-> after]
    ELSE IF key = "__doc__" THEN [out |-> NoneVal, err |-> NoErr, self |-> after]
    ELSE IF HasAttr(self.expression, key)
    THEN [out |-> AttrOf(self.expression, key), err |-> NoErr, self |-> after]
    ELSE [out |-> NoneVal, err |-> NoAttribute, self |-> after]

\* reading comparator.<key> on an ExprComparator: info is the property of the
\* class and returns self.hybrid.info; __doc__ is found on the class, which
\* has no docstring; any name not found by the normal lookup goes through
\* __getattr__ to getattr(self.expression, key).  self: the comparator after
\* the read, no field of which is assigned.
GetAttrOutcome(self, key) ==
    IF key = "info"
    THEN [out |-> AttrOf(HybridRef(self.hybrid), "info"), err |-> NoErr, self |-> self]
    ELSE IF key = "__doc__" THEN [out |-> NoneVal, err |-> NoErr, self |-> self]
    ELSE IF HasAttr(self.expression, key)
    THEN [out |-> AttrOf(self.expression, key), err |-> NoErr, self |-> self]
    ELSE [out |-> NoneVal, err |-> NoAttribute, self |-> self]

GetAttr(key) ==
    /\ Receiver.t = "ExprComparator"
    /\ last' = Op("__getattr__", Receiver.hybrid, None, Receiver.cls, key, 0)
    /\ LET o == GetAttrOutcome(Receiver, key) IN
       /\ out' = o.out
       /\ err' = o.err
       /\ ret' = IF ret.t = "Proxy" THEN [ret EXCEPT !.comparator = o.self]
                 ELSE o.self
    /\ calls' = <<>>
    /\ UNCHANGED <<hybrids, classDict, inst>>
    /\ UNCHANGED threadVars
    /\ UNCHANGED otherVars

\* comparator.__clause_element__()
ClauseElement ==
    /\ Receiver.t \in {"Comparator", "ExprComparator"}
    /\ last' = Op("__clause_element__",
                  IF Receiver.t = "ExprComparator" THEN Receiver.hybrid ELSE 0,
                  None,
                  IF Receiver.t = "ExprComparator" THEN Receiver.cls ELSE None,
                  None, 0)
    /\ LET o == ClauseElementOutcome(Receiver) IN
       /\ out' = o.out
       /\ err' = o.err
    /\ calls' = <<>>
    /\ UNCHANGED <<hybrids, classDict, inst, ret>>
    /\ UNCHANGED threadVars
    /\ UNCHANGED otherVars

HybridIds == 1..MaxHybrids
\* where a modifying decorator is applied: in the body of the subclass, or
\* outside any class body
Decls == {None, "SubInterval"}
\* type(i1)
InstanceClass == "SubInterval"
\* (instance, owner) pairs of __get__: class-level access through either
\* class, instance access through the instance's class, and owner None
GetArgs == ({None} \X Classes) \cup {<<"i1", InstanceClass>>, <<"i1", None>>, <<None, None>>}

Next ==
    \/ \E h \in HybridIds, a \in GetArgs : Get(h, a[1], a[2])
    \/ \E h \in HybridIds, v \in SetValues : Set(h, v)
    \/ \E h \in HybridIds : Delete(h)
    \/ Overrides
    \/ \E h \in HybridIds, f \in Getters, d \in Decls : Getter(h, f, d)
    \/ \E h \in HybridIds, f \in Setters, d \in Decls : Setter(h, f, d)
    \/ \E h \in HybridIds, f \in Deleters, d \in Decls : Deleter(h, f, d)
    \/ \E h \in HybridIds, f \in Exprs, d \in Decls : Expression(h, f, d)
    \/ \E h \in HybridIds, f \in Comparators, d \in Decls : Comparator(h, f, d)
    \/ \E h \in HybridIds, f \in Updaters, d \in Decls : UpdateExpression(h, f, d)
    \/ \E v \in BulkValues : BulkUpdate(v)

Spec == Init /\ [][Next]_vars

(***************************************************************************)
(* Comparators constructed directly: Comparator(expression) and            *)
(* ExprComparator(cls, expression, hybrid) over a set of expressions.      *)
(***************************************************************************)
\* values given as the expression: a mapped attribute, nodes, a comparator,
\* objects with a __clause_element__ method that returns a node or not, and a
\* plain value
ExprInputs ==
    { QA("Interval", "start"),
      Column("Interval", "end"),
      Bin("sub", QA("Interval", "end"), QA("Interval", "start")),
      Func("abs", Column("Interval", "start")),
      ComparatorObj(QA("SubInterval", "start")),
      ComparatorObj(HasClauseElement(PyInt(5))),
      HasClauseElement(Column("Interval", "start")),
      HasClauseElement(PyInt(5)),
      PyInt(5) }

ComparatorInputs ==
    { ComparatorObj(e) : e \in ExprInputs } \cup
    { ExprComparator(c, e, 1) : c \in Classes, e \in ExprInputs }

InitComparator ==
    /\ \E kw \in InitKw :
          /\ hybrids = << Construct(kw) >>
          /\ classDict = [c \in Classes |-> [n \in Names |->
                             IF c = "Interval" /\ n = FnName(kw.fget) THEN 1 ELSE 0]]
    /\ inst = [start |-> 5, end |-> 10]
    /\ \E x \in ComparatorInputs :
          /\ ret = x
          /\ last = Op("__init__",
                       IF x.t = "ExprComparator" THEN 1 ELSE 0, None,
                       IF x.t = "ExprComparator" THEN x.cls ELSE None, None, 0)
    /\ calls = <<>>
    /\ out = NoneVal
    /\ err = NoErr
    /\ InitThreads
    /\ InitOthers

NextComparator ==
    \/ ClauseElement
    \/ \E op \in Ops, k \in 1..Len(OperandTuples) : Operate(op, k)
    \/ \E op \in Ops, k \in 1..Len(OperandTuples) : ReverseOperate(op, k)
    \/ \E key \in AttrKeys : GetAttr(key)
    \/ \E c \in Classes : Get(1, None, c)
    \/ \E v \in BulkValues : BulkUpdate(v)

SpecComparator == InitComparator /\ [][NextComparator]_vars

(***************************************************************************)
(* Class-level access to hybrid 1 by several threads, one step at a time:  *)
(* the lookup of self._expr_comparator, the body of the memoized property, *)
(* the store of its result, and the call of the factory with the owner.    *)
(***************************************************************************)
\* the factory now stored under _expr_comparator (0: none)
Cached == IF published = <<>> THEN 0 ELSE published[Len(published)]

\* class-level accesses begun so far
Begun ==
    tally["Interval"].accesses + tally["SubInterval"].accesses
        + Cardinality({t \in Threads : threads[t].pc # "idle"})

\* cls.<name> evaluated by thread t: __get__(None, owner) is entered
Begin(t, c) ==
    /\ threads[t].pc = "idle"
    /\ Begun < MaxAccess
    /\ threads' = [threads EXCEPT ![t].pc = "lookup", ![t].owner = c]
    /\ UNCHANGED <<hybrids, classDict, inst, last, calls, ret, out, err,
                   published, tally>>
    /\ UNCHANGED otherVars

\* self._expr_comparator: the value in __dict__ when there is one, else the
\* memoized property is asked
Lookup(t) ==
    /\ threads[t].pc = "lookup"
    /\ threads' = IF hybrids[1].memo # NoMemo
                  THEN [threads EXCEPT ![t].pc = "call", ![t].local = Cached]
                  ELSE [threads EXCEPT ![t].pc = "compute"]
    /\ UNCHANGED <<hybrids, classDict, inst, last, calls, ret, out, err,
                   published, tally>>
    /\ UNCHANGED otherVars

\* the body of _expr_comparator: a new factory
Compute(t) ==
    /\ threads[t].pc = "compute"
    /\ threads' = [threads EXCEPT ![t].pc = "publish", ![t].local = t,
                                  ![t].computed = TRUE]
    /\ UNCHANGED <<hybrids, classDict, inst, last, calls, ret, out, err,
                   published, tally>>
    /\ UNCHANGED otherVars

\* mutant: every computed factory is stored, the last writer wins
PublishOnce_LastWriterWins(pub, mine) == Append(pub, mine)

\* the memoization stores a computed result only when none is stored yet
PublishOnce(pub, mine) == IF pub = <<>> THEN <<mine>> ELSE pub

\* the store of the memoized property; the thread goes on with what is stored
Publish(t) ==
    /\ threads[t].pc = "publish"
    /\ LET pub == PublishOnce(published, threads[t].local) IN
       /\ published' = pub
       /\ threads' = [threads EXCEPT ![t].pc = "call", ![t].local = pub[Len(pub)]]
    /\ hybrids' = [hybrids EXCEPT ![1].memo = MemoAfter(hybrids[1])]
    /\ UNCHANGED <<classDict, inst, last, calls, ret, out, err, tally>>
    /\ UNCHANGED otherVars

\* the factory is called with the owner: expr_comparator(owner)
CallFactory(t) ==
    /\ threads[t].pc = "call"
    /\ LET c == threads[t].owner
           o == GetOutcome(hybrids, classDict, inst, 1, None, c) IN
       /\ hybrids' = o.hybrids
       /\ calls' = o.calls
       /\ ret' = o.ret
       /\ last' = Op("__get__", 1, None, c, None, 0)
       /\ tally' = [tally EXCEPT ![c].accesses = @ + 1,
                                 ![c].builds = @ + Len(o.calls)]
    /\ threads' = [threads EXCEPT ![t] = [IdleThread EXCEPT
                       !.computed = threads[t].computed,
                       !.used = threads[t].local]]
    /\ out' = NoneVal
    /\ err' = NoErr
    /\ UNCHANGED <<classDict, inst, published>>
    /\ UNCHANGED otherVars

NextMemo ==
    \/ \E t \in Threads, c \in Classes : Begin(t, c)
    \/ \E t \in Threads : Lookup(t)
    \/ \E t \in Threads : Compute(t)
    \/ \E t \in Threads : Publish(t)
    \/ \E t \in Threads : CallFactory(t)

SpecMemo == Init /\ [][NextMemo]_vars

(***************************************************************************)
(* Instance-level use only: get, set and delete through the instance, and  *)
(* the modifying decorators; no class-level access is ever made.           *)
(***************************************************************************)
InstanceGetArgs == {<<"i1", InstanceClass>>, <<"i1", None>>}

NextInstance ==
    \/ \E h \in HybridIds, a \in InstanceGetArgs : Get(h, a[1], a[2])
    \/ \E h \in HybridIds, v \in SetValues : Set(h, v)
    \/ \E h \in HybridIds : Delete(h)
    \/ \E h \in HybridIds, f \in Getters, d \in Decls : Getter(h, f, d)
    \/ \E h \in HybridIds, f \in Setters, d \in Decls : Setter(h, f, d)
    \/ \E h \in HybridIds, f \in Deleters, d \in Decls : Deleter(h, f, d)
    \/ \E h \in HybridIds, f \in Exprs, d \in Decls : Expression(h, f, d)
    \/ \E h \in HybridIds, f \in Comparators, d \in Decls : Comparator(h, f, d)
    \/ \E h \in HybridIds, f \in Updaters, d \in Decls : UpdateExpression(h, f, d)

SpecInstance == Init /\ [][NextInstance]_vars

(***************************************************************************)
(* hybrid_method                                                           *)
(***************************************************************************)
MethodRef(m) == [t |-> "hybrid_method", m |-> m]
\* fn.__get__(obj, owner): the function bound to obj
BoundMethod(f, self) == [t |-> "method", fn |-> f, self |-> self]

\* mutant: a new object carries the expression function, as the modifying
\* decorators of hybrid_property do
MethodExpressionOutcome_Copies(ms, docs, m, fn) ==
    [methods |-> Append(ms, [ms[m] EXCEPT !.expr = fn]),
     fnDocs  |-> IF docs[fn] = None THEN [docs EXCEPT ![fn] = docs[ms[m].func]]
                 ELSE docs,
     ret     |-> MethodRef(Len(ms) + 1)]

\* hybrid_method.expression(expr): self.expr is assigned, a function without
\* docstring takes the docstring of self.func, and self is returned
MethodExpressionOutcome(ms, docs, m, fn) ==
    [methods |-> [ms EXCEPT ![m].expr = fn],
     fnDocs  |-> IF docs[fn] = None THEN [docs EXCEPT ![fn] = docs[ms[m].func]]
                 ELSE docs,
     ret     |-> MethodRef(m)]

\* hybrid_method.__init__(func, expr): self.func = func, then
\* self.expression(expr or func)
MethodInitOutcome(ms, docs, func, expr) ==
    MethodExpressionOutcome(Append(ms, [func |-> func, expr |-> None]), docs,
                            Len(ms) + 1, IF expr # None THEN expr ELSE func)

MethodInit(func, expr) ==
    /\ Len(methods) < MaxMethods
    /\ last' = Op("hybrid_method.__init__", Len(methods) + 1, None, None, expr, 0)
    /\ LET o == MethodInitOutcome(methods, fnDocs, func, expr) IN
       /\ methods' = o.methods
       /\ fnDocs' = o.fnDocs
       /\ ret' = MethodRef(Len(methods) + 1)
    /\ calls' = <<>>
    /\ out' = NoneVal
    /\ err' = NoErr
    /\ UNCHANGED <<hybrids, classDict, inst, stack>>
    /\ UNCHANGED threadVars

\* mutant: the value function is bound whatever the access
MethodGetOutcome_AlwaysFunc(ms, m, instance, owner) ==
    IF instance = None
    THEN BoundMethod(ms[m].func, ClassRef(owner))
    ELSE BoundMethod(ms[m].func, InstanceRef)

\* hybrid_method.__get__(instance, owner)
MethodGetOutcome(ms, m, instance, owner) ==
    IF instance = None
    THEN BoundMethod(ms[m].expr, ClassRef(owner))
    ELSE BoundMethod(ms[m].func, InstanceRef)

MethodGet(m, instance, owner) ==
    /\ m \in 1..Len(methods)
    /\ last' = Op("hybrid_method.__get__", m, instance, owner, None, 0)
    /\ ret' = MethodGetOutcome(methods, m, instance, owner)
    /\ calls' = <<>>
    /\ out' = NoneVal
    /\ err' = NoErr
    /\ UNCHANGED <<hybrids, classDict, inst, methods, fnDocs, stack>>
    /\ UNCHANGED threadVars

MethodExpression(m, fn) ==
    /\ m \in 1..Len(methods)
    /\ last' = Op("hybrid_method.expression", m, None, None, fn, 0)
    /\ LET o == MethodExpressionOutcome(methods, fnDocs, m, fn) IN
       /\ methods' = o.methods
       /\ fnDocs' = o.fnDocs
       /\ ret' = o.ret
    /\ calls' = <<>>
    /\ out' = NoneVal
    /\ err' = NoErr
    /\ UNCHANGED <<hybrids, classDict, inst, stack>>
    /\ UNCHANGED threadVars

MethodIds == 1..MaxMethods
\* (instance, owner) pairs of hybrid_method.__get__
MethodGetArgs == ({None} \X Classes) \cup {<<"i1", InstanceClass>>}

NextMethod ==
    \/ \E f \in MethodFuncs, e \in MethodExprs \cup {None} : MethodInit(f, e)
    \/ \E m \in MethodIds, a \in MethodGetArgs : MethodGet(m, a[1], a[2])
    \/ \E m \in MethodIds, f \in MethodExprs \cup MethodFuncs : MethodExpression(m, f)

SpecMethod == Init /\ [][NextMethod]_vars

(***************************************************************************)
(* A class-level access whose builder reads another hybrid of the class    *)
(***************************************************************************)
\* the hybrid a builder reads from the class it is given (None: it reads
\* mapped attributes only): radius is built from cls.length, diameter from
\* cls.radius
DependsOn(f) ==
    CASE f \in {"get_radius", "expr_radius"} -> "length"
      [] f = "get_diameter"                -> "radius"
      [] OTHER                             -> None

\* fn(cls) for a builder, given the view its read of the other hybrid
\* returned: cls.length / 2, func.abs(cls.length) / 2, cls.radius * 2
NestedCallOnClass(f, c, inner) ==
    CASE f = "get_radius"   -> OperateOutcome(inner.comparator, "truediv", <<PyInt(2)>>).out
      [] f = "expr_radius"  ->
             ApplyOp("truediv", <<Func("abs", Adapt(inner.comparator)), PyInt(2)>>).out
      [] f = "get_diameter" -> OperateOutcome(inner.comparator, "mul", <<PyInt(2)>>).out
      [] OTHER              -> CallOnClass(f, c)

\* _get_comparator.expr_comparator(owner), the builder having read inner
NestedExprComparatorCall(cd, hp, memo, h, owner, inner) ==
    [t          |-> "Proxy",
     owner      |-> owner,
     key        |-> MroName(cd, h, hp.name, mro(owner)),
     hybrid     |-> h,
     comparator |-> IF memo.kind = "expr"
                    THEN ExprComparator(owner, NestedCallOnClass(memo.fn, owner, inner), h)
                    ELSE CallOnClass(memo.fn, owner),
     doc        |-> IF FnDoc(memo.fn) # None THEN FnDoc(memo.fn) ELSE hp.doc]

\* a call of hybrid_property.__get__(None, owner) in progress.  pc "memo":
\* about to read self._expr_comparator; "call": about to call the factory
\* with owner; "wait": its builder is inside a read of another hybrid;
\* "return": its builder has what it needs, the view is about to be returned
Frame(h, owner) == [h |-> h, owner |-> owner, pc |-> "memo", inner |-> NoneVal]

Top == stack[Len(stack)]

\* mutant: the view of the inner access does not reach the builder that
\* asked for it
NestedReturn_ViewLost(stk, view) ==
    LET rest == SubSeq(stk, 1, Len(stk) - 1) IN
    IF rest = <<>> THEN [stack |-> rest, ret |-> view]
    ELSE [stack |-> rest, ret |-> NoneVal]

\* the return of the innermost access: its caller's builder goes on with the
\* view, or the view is the result of the outermost access
NestedReturn(stk, view) ==
    LET rest == SubSeq(stk, 1, Len(stk) - 1) IN
    IF rest = <<>> THEN [stack |-> rest, ret |-> view]
    ELSE [stack |-> [rest EXCEPT ![Len(rest)] =
                        [@ EXCEPT !.pc = "return", !.inner = view]],
          ret   |-> NoneVal]

\* type(owner).name evaluated by the host program: hybrid h is what the
\* attribute resolves to
NBegin(h, owner) ==
    /\ stack = <<>>
    /\ h \in 1..Len(hybrids)
    /\ ClassAttr(classDict, owner, hybrids[h].name) = h
    /\ last' = Op("__get__", h, None, owner, None, 0)
    /\ stack' = << Frame(h, owner) >>
    /\ calls' = <<>>
    /\ ret' = NoneVal
    /\ out' = NoneVal
    /\ err' = NoErr
    /\ UNCHANGED <<hybrids, classDict, inst, methods, fnDocs>>
    /\ UNCHANGED threadVars

\* self._expr_comparator: the factory is created on the first read
NLookup ==
    /\ stack # <<>>
    /\ Top.pc = "memo"
    /\ hybrids' = [hybrids EXCEPT ![Top.h].memo = MemoAfter(hybrids[Top.h])]
    /\ stack' = [stack EXCEPT ![Len(stack)].pc = "call"]
    /\ UNCHANGED <<classDict, inst, last, calls, ret, out, err, methods, fnDocs>>
    /\ UNCHANGED threadVars

\* the factory calls the builder with owner; a builder that reads another
\* hybrid of owner enters that hybrid's __get__(None, owner)
NCall ==
    /\ stack # <<>>
    /\ Top.pc = "call"
    /\ LET fn  == hybrids[Top.h].memo.fn
           dep == IF hybrids[Top.h].memo.kind = "expr" THEN DependsOn(fn) ELSE None IN
       /\ calls' = Append(calls, Call(fn, <<ClassRef(Top.owner)>>))
       /\ stack' = IF dep = None
                   THEN [stack EXCEPT ![Len(stack)].pc = "return"]
                   ELSE Append([stack EXCEPT ![Len(stack)].pc = "wait"],
                               Frame(ClassAttr(classDict, Top.owner, dep), Top.owner))
    /\ UNCHANGED <<hybrids, classDict, inst, last, ret, out, err, methods, fnDocs>>
    /\ UNCHANGED threadVars

\* the builder returns, the view is made and handed to the caller
NReturn ==
    /\ stack # <<>>
    /\ Top.pc = "return"
    /\ LET o == NestedReturn(stack,
                    NestedExprComparatorCall(classDict, hybrids[Top.h],
                        hybrids[Top.h].memo, Top.h, Top.owner, Top.inner)) IN
       /\ stack' = o.stack
       /\ ret' = o.ret
    /\ UNCHANGED <<hybrids, classDict, inst, last, calls, out, err, methods, fnDocs>>
    /\ UNCHANGED threadVars

\* the class bodies: length in Interval, with or without an expression
\* builder; radius, with or without one, and diameter in Interval or in
\* SubInterval, each where the hybrid it reads can be resolved
NestedDecls ==
    { <<"Interval", "Interval">>, <<"Interval", "SubInterval">>,
      <<"SubInterval", "SubInterval">> }

InitNested ==
    /\ \E le \in {None, "expr_abs_length"}, re \in {None, "expr_radius"},
          d \in NestedDecls :
          /\ hybrids = << Construct(Kw("get_length", None, None, le, None, None)),
                          Construct(Kw("get_radius", None, None, re, None, None)),
                          Construct(Kw("get_diameter", None, None, None, None, None)) >>
          /\ classDict = [c \in Classes |-> [n \in Names |->
                            CASE n = "length"   /\ c = "Interval" -> 1
                              [] n = "radius"   /\ c = d[1]       -> 2
                              [] n = "diameter" /\ c = d[2]       -> 3
                              [] OTHER                            -> 0]]
    /\ last = Op("__init__", 3, None, "Interval", "get_diameter", 0)
    /\ inst = [start |-> 5, end |-> 10]
    /\ calls = <<>>
    /\ ret = HybridRef(3)
    /\ out = NoneVal
    /\ err = NoErr
    /\ InitThreads
    /\ InitOthers

NStep == NLookup \/ NCall \/ NReturn

NextNested ==
    \/ \E h \in 1..Len(hybrids), c \in Classes : NBegin(h, c)
    \/ NLookup
    \/ NCall
    \/ NReturn

\* one thread runs the access: a call that has started goes on
SpecNested == InitNested /\ [][NextNested]_vars /\ WF_vars(NStep)






(***************************************************************************)
(* Properties                                                              *)
(***************************************************************************)
InstanceGetDone == last.op = "__get__" /\ last.instance # None /\ last.owner # None
ClassGetDone    == last.op = "__get__" /\ last.instance = None /\ last.owner # None

\* C1: an instance-level __get__ (owner not None) invokes exactly the value
\* getter fget, once, with that instance, and returns its result unmodified,
\* whether or not an expression builder, a custom comparator or an
\* update-clause builder is attached.
C1_InstanceGetUsesGetter ==
    InstanceGetDone =>
        /\ calls = << Call(hybrids[last.h].fget, <<InstanceRef>>) >>
        /\ ret = CallOnInstance(hybrids[last.h].fget, inst)
        /\ err = NoErr

C1_Witness ==
    /\ InstanceGetDone
    /\ hybrids[last.h].expr # None
    /\ hybrids[last.h].fget = "get_length"
    /\ ret = PyInt(inst.end - inst.start)

\* C2: class-level access never invokes the value getter when a custom
\* comparator or an expression builder is attached, and invokes it with the
\* owning class when neither is attached.
C2_FallbackGetterOnlyWhenBare ==
    ClassGetDone =>
        LET hp == hybrids[last.h] IN
        IF hp.custom_comparator # None \/ hp.expr # None
        THEN \A k \in 1..Len(calls) : calls[k].fn # hp.fget
        ELSE calls = << Call(hp.fget, <<ClassRef(last.owner)>>) >>

C2_Witness ==
    /\ ClassGetDone
    /\ hybrids[last.h].expr # None
    /\ hybrids[last.h].custom_comparator = None
    /\ calls = << Call(hybrids[last.h].expr, <<ClassRef(last.owner)>>) >>

\* C3: with both a custom comparator and an expression builder stored,
\* class-level access calls the comparator factory with the owning class and
\* never calls the expression builder; the view is bound to the factory's
\* comparator.
C3_ComparatorTakesPriority ==
    (ClassGetDone /\ hybrids[last.h].custom_comparator # None
                  /\ hybrids[last.h].expr # None) =>
        /\ calls = << Call(hybrids[last.h].custom_comparator, <<ClassRef(last.owner)>>) >>
        /\ ret.comparator = CallOnClass(hybrids[last.h].custom_comparator, last.owner)

C3_Witness ==
    /\ ClassGetDone
    /\ hybrids[last.h].custom_comparator # None
    /\ hybrids[last.h].expr # None
    /\ ret.comparator.t = "Comparator"

\* the callables a class-level access through owner c invokes on hybrid h,
\* and the view it returns, under member tables cd
ClassAccess(hs, cd, h, c) == GetOutcome(hs, cd, inst, h, None, c)

OverrideStep ==
    /\ last'.op \in {"expression", "comparator"}
    /\ last'.via = "overrides"
    /\ last'.owner = "SubInterval"
    /\ FnName(last'.fn) = hybrids[last'.h].name
    /\ ClassAttr(classDict, "SubInterval", hybrids[last'.h].name) = last'.h
    /\ ClassAttr(classDict, "Interval", hybrids[last'.h].name) = last'.h

\* what the override leaves alone: the new hybrid has the parent's getter,
\* setter and deleter; the parent's descriptor is unchanged and the parent
\* class still resolves the name to it, through the same builder
OverrideKeeps(p, new) ==
    /\ new # p
    /\ hybrids'[new].fget = hybrids[p].fget
    /\ hybrids'[new].fset = hybrids[p].fset
    /\ hybrids'[new].fdel = hybrids[p].fdel
    /\ hybrids'[p] = hybrids[p]
    /\ ClassAttr(classDict', "Interval", hybrids[p].name) = p
    /\ ClassAccess(hybrids', classDict', p, "Interval").calls
         = ClassAccess(hybrids, classDict, p, "Interval").calls
    /\ ClassAccess(hybrids', classDict', p, "Interval").ret
         = ClassAccess(hybrids, classDict, p, "Interval").ret

\* the subclass resolves the name to the new hybrid, whose class-level access
\* calls the builder the override supplied
OverrideResolvesThroughNew(p, new) ==
    /\ ClassAttr(classDict', "SubInterval", hybrids[p].name) = new
    /\ ClassAccess(hybrids', classDict', new, "SubInterval").calls
         = << Call(last'.fn, <<ClassRef("SubInterval")>>) >>

\* C6 as claimed: overriding only the expression or the comparator through
\* the overrides marker keeps the parent's getter, setter and deleter and the
\* parent's own resolution, and class-level access on the subclass resolves
\* through the new builder.
C6_OverrideAsClaimed ==
    [][ OverrideStep =>
          /\ OverrideKeeps(last'.h, ret'.h)
          /\ OverrideResolvesThroughNew(last'.h, ret'.h) ]_vars

\* C6 amended: class-level access on the subclass resolves through the new
\* builder when the override supplies a comparator, or supplies an expression
\* builder to a hybrid that has no custom comparator; an expression builder
\* supplied to a hybrid that has a custom comparator is stored but the
\* subclass keeps resolving through that comparator.
C6_OverrideAmended ==
    [][ OverrideStep =>
          /\ OverrideKeeps(last'.h, ret'.h)
          /\ IF last'.op = "comparator" \/ hybrids[last'.h].custom_comparator = None
             THEN OverrideResolvesThroughNew(last'.h, ret'.h)
             ELSE /\ hybrids'[ret'.h].expr = last'.fn
                  /\ ClassAttr(classDict', "SubInterval", hybrids[last'.h].name) = ret'.h
                  /\ ClassAccess(hybrids', classDict', ret'.h, "SubInterval").calls
                       = << Call(hybrids[last'.h].custom_comparator,
                                 <<ClassRef("SubInterval")>>) >> ]_vars

\* the subclass has overridden the expression of a parent hybrid that has a
\* setter and a deleter and had been accessed through the parent class
C6_Witness ==
    /\ last.op = "expression"
    /\ last.via = "overrides"
    /\ last.owner = "SubInterval"
    /\ hybrids[last.h].fset # None
    /\ hybrids[last.h].fdel # None
    /\ hybrids[last.h].memo # NoMemo
    /\ ClassAttr(classDict, "SubInterval", "length") = ret.h
    /\ ClassAttr(classDict, "Interval", "length") = last.h
    /\ ClassAccess(hybrids, classDict, ret.h, "SubInterval").calls
         = << Call("expr_abs_length", <<ClassRef("SubInterval")>>) >>
    /\ ClassAccess(hybrids, classDict, last.h, "Interval").calls
         = << Call("get_length", <<ClassRef("Interval")>>) >>

\* C7: __set__ on a hybrid without a setter raises the can't-set error,
\* invokes no callable and changes neither the instance nor any descriptor;
\* with a setter attached it invokes it exactly once with (instance, value).
C7_SetWithoutSetterFails ==
    [][ last'.op = "__set__" =>
          IF hybrids[last'.h].fset = None
          THEN /\ err' = CantSet
               /\ calls' = <<>>
               /\ inst' = inst
               /\ hybrids' = hybrids
               /\ classDict' = classDict
          ELSE /\ err' = NoErr
               /\ calls' = << Call(hybrids[last'.h].fset,
                                   <<InstanceRef, PyInt(last'.value)>>) >> ]_vars

C7_Witness ==
    /\ last.op = "__set__"
    /\ hybrids[last.h].fset = None
    /\ err = CantSet
    /\ calls = <<>>

\* C8: __delete__ on a hybrid without a deleter raises the can't-delete
\* error, invokes no callable and changes neither the instance nor any
\* descriptor; with a deleter attached it invokes it exactly once with the
\* instance.
C8_DeleteWithoutDeleterFails ==
    [][ last'.op = "__delete__" =>
          IF hybrids[last'.h].fdel = None
          THEN /\ err' = CantDelete
               /\ calls' = <<>>
               /\ inst' = inst
               /\ hybrids' = hybrids
               /\ classDict' = classDict
          ELSE /\ err' = NoErr
               /\ calls' = << Call(hybrids[last'.h].fdel, <<InstanceRef>>) >> ]_vars

\* a hybrid that has a setter but no deleter
C8_Witness ==
    /\ last.op = "__delete__"
    /\ hybrids[last.h].fdel = None
    /\ hybrids[last.h].fset # None
    /\ err = CantDelete
    /\ calls = <<>>

BulkDone == last.op = "_bulk_update_tuples" /\ HoldsExprComparator

\* C9: when the wrapped expression is an ordinary mapped attribute,
\* _bulk_update_tuples delegates to that attribute's own translation and never
\* invokes the update-clause builder, attached or not.
C9_BulkDelegatesToMappedAttribute ==
    (BulkDone /\ IsQueryableAttribute(ret.comparator.expression)) =>
        /\ calls = << Call(QABulk, <<ret.comparator.expression, PyInt(last.value)>>) >>
        /\ out = QABulkUpdateTuples(ret.comparator.expression, PyInt(last.value))

\* the hybrid re-exposes Interval.start and has an update-clause builder
C9_Witness ==
    /\ BulkDone
    /\ IsQueryableAttribute(ret.comparator.expression)
    /\ hybrids[ret.hybrid].update_expr # None
    /\ out = PyList(<< <<Column(ret.owner, "start"), PyInt(25)>> >>)

\* C10: when the wrapped expression is not a mapped attribute and the hybrid
\* has an update-clause builder, _bulk_update_tuples invokes the builder
\* exactly once with (owning class of the access, value) and returns its
\* result as it is.
C10_BulkUsesUpdateBuilder ==
    (BulkDone /\ ~IsQueryableAttribute(ret.comparator.expression)
              /\ hybrids[ret.hybrid].update_expr # None) =>
        /\ calls = << Call(hybrids[ret.hybrid].update_expr,
                           <<ClassRef(ret.owner), PyInt(last.value)>>) >>
        /\ out = CallUpdater(hybrids[ret.hybrid].update_expr, ret.owner,
                             PyInt(last.value))

\* the access was made through the subclass, the hybrid declared in the parent
C10_Witness ==
    /\ BulkDone
    /\ ret.owner = "SubInterval"
    /\ hybrids[ret.hybrid].update_expr = "upd_length"
    /\ out = PyList(<< <<QA("SubInterval", "end"),
                         Bin("add", QA("SubInterval", "start"), PyInt(25))>> >>)

\* the view's hybrid has no update-clause builder and its expression is not
\* a mapped attribute
BulkFallback ==
    /\ BulkDone
    /\ ~IsQueryableAttribute(ret.comparator.expression)
    /\ hybrids[ret.hybrid].update_expr = None

\* C11: when the wrapped expression is not a mapped attribute and the hybrid
\* has no update-clause builder, _bulk_update_tuples(value) returns exactly
\* the one-element list [(wrapped expression, value)], both unchanged, and
\* invokes no user callable.
C11_BulkFallbackPair ==
    BulkFallback =>
        /\ out = PyList(<< <<ret.comparator.expression, PyInt(last.value)>> >>)
        /\ calls = <<>>

\* the bare Interval.length hybrid, read through the subclass
C11_Witness ==
    /\ BulkFallback
    /\ ret.owner = "SubInterval"
    /\ out = PyList(<< <<Bin("sub", QA("SubInterval", "end"), QA("SubInterval", "start")),
                         PyInt(25)>> >>)

\* a single assignable target: a mapped attribute or the column it stands for
IsAssignableTarget(x) == x.t \in {"QueryableAttribute", "Column"}

AmbiguousUpdateTarget == "AmbiguousUpdateTarget"

\* C12 as claimed: without an update-clause builder, a bulk assignment to a
\* hybrid whose expression is not a single assignable target raises
\* AmbiguousUpdateTarget instead of returning a target list.
C12_AmbiguousTargetRaises ==
    (BulkFallback /\ ~IsAssignableTarget(ret.comparator.expression)) =>
        /\ err = AmbiguousUpdateTarget
        /\ out.t # "list"

\* C12, amended: in that case _bulk_update_tuples raises nothing and returns
\* a list of one pair whose target is the compound expression itself; the
\* rejection of such a target is left to the consumer of the list.
C12_AmbiguousTargetReturned ==
    (BulkFallback /\ ~IsAssignableTarget(ret.comparator.expression)) =>
        /\ err = NoErr
        /\ out.t = "list"
        /\ Len(out.items) = 1
        /\ out.items[1][1] = ret.comparator.expression
        /\ ~IsAssignableTarget(out.items[1][1])

\* the function expression abs(end - start) of an expression-builder hybrid
C12_Witness ==
    /\ BulkFallback
    /\ ret.comparator.expression.t = "Function"
    /\ err = NoErr
    /\ out.t = "list"

\* the names under which class c declares the hybrid h
DeclaredNames(cd, h, c) == {n \in Names : cd[c][n] = h}

\* the first class of the ancestry m, most-derived first, that declares h
RECURSIVE FirstHolder(_, _, _)
FirstHolder(cd, h, m) ==
    IF m = <<>> THEN None
    ELSE IF DeclaredNames(cd, h, Head(m)) # {} THEN Head(m)
    ELSE FirstHolder(cd, h, Tail(m))

\* C15 as claimed: the published name of a class-level access is a name under
\* which the first ancestor (most-derived first) holding the descriptor itself
\* declares it, whatever that name is; the sentinel name is published only when
\* no ancestor's member table contains the descriptor.
C15_NameUnderAnyDeclaration ==
    ClassGetDone =>
        LET c == FirstHolder(classDict, last.h, mro(last.owner)) IN
        IF c = None THEN ret.key = UNKNOWN_ATTR_KEY
        ELSE ret.key \in DeclaredNames(classDict, last.h, c)

\* C15, amended: the ancestry is searched, most-derived first, only under the
\* descriptor's own __name__ (the name of its getter function); the published
\* name is __name__ when some ancestor binds that name to the descriptor itself
\* (ancestors binding it to another object are passed over), and the sentinel
\* otherwise, also when an ancestor declares the descriptor under another name.
C15_NameUnderOwnName ==
    ClassGetDone =>
        LET name == hybrids[last.h].name
            m    == mro(last.owner) IN
        ret.key = IF \E k \in 1..Len(m) : classDict[m[k]][name] = last.h
                  THEN name ELSE UNKNOWN_ATTR_KEY

\* the parent's hybrid read through a subclass that shadows its name with a
\* copy: the search passes over the subclass and finds it in the parent
C15_Witness ==
    /\ ClassGetDone
    /\ last.owner = "SubInterval"
    /\ classDict["SubInterval"][hybrids[last.h].name] \notin {0, last.h}
    /\ classDict["Interval"][hybrids[last.h].name] = last.h
    /\ ret.key = hybrids[last.h].name

\* a copy declared in the subclass under a name that is not its __name__
C15_WitnessSentinel ==
    /\ ClassGetDone
    /\ FirstHolder(classDict, last.h, mro(last.owner)) # None
    /\ ret.key = UNKNOWN_ATTR_KEY

\* C16 as claimed: every rebind, the getter rebind with a differently named
\* function included, returns a hybrid with the __name__ of the hybrid it was
\* applied to.
C16_RebindKeepsName ==
    last.op \in RebindOps => hybrids[ret.h].name = hybrids[last.h].name

\* C16, amended: the setter, deleter, expression, comparator and
\* update_expression rebinds return a hybrid with the __name__ of the hybrid
\* they were applied to; the getter rebind returns a hybrid whose __name__ is
\* the name of the new getter function, so the name is kept only when that
\* function has the same name.
C16_RebindNameFollowsGetter ==
    last.op \in RebindOps =>
        hybrids[ret.h].name = IF last.op = "getter" THEN FnName(last.fn)
                              ELSE hybrids[last.h].name

\* length.getter(get_start_point): the new hybrid is named start_point
C16_Witness ==
    /\ last.op = "getter"
    /\ hybrids[last.h].name = "length"
    /\ FnName(last.fn) = "start_point"
    /\ hybrids[ret.h].name = "start_point"

\* start_point.expression(expr_abs_length): the name is kept although the
\* builder is named length
C16_WitnessKept ==
    /\ last.op = "expression"
    /\ FnName(last.fn) # hybrids[last.h].name
    /\ hybrids[ret.h].name = hybrids[last.h].name

OperateDone == last.op = "operate"
ReverseOperateDone == last.op = "reverse_operate"
ClauseElementDone == last.op = "__clause_element__"

\* C13: operate(op, operands...) of a bound comparator gives what op gives
\* when applied directly to the adapted expression node followed by the
\* adapted operands, for every operator and operand tuple: the same new node,
\* or the same failure when the expression or an operand cannot be adapted.
C13_OperateAppliesOpToExpression ==
    OperateDone =>
        LET e      == Receiver.expression
            others == OperandTuples[last.value] IN
        IF Adaptable(e) /\ \A k \in 1..Len(others) : Adaptable(others[k])
        THEN /\ err = NoErr
             /\ out = IF others = <<>> THEN Unary(last.fn, Adapt(e))
                      ELSE Bin(last.fn, Adapt(e), Adapt(others[1]))
        ELSE err = InvalidExpressionType

\* Interval.start > 5
C13_Witness ==
    /\ OperateDone
    /\ Receiver.expression = QA("Interval", "start")
    /\ out = Bin("gt", Column("Interval", "start"), BindParameter(PyInt(5)))

\* C14: reverse_operate(op, other) gives op(other, node): the other operand
\* is the left argument and the wrapped expression the right one, for every
\* operator and operand.
C14_ReverseOperateSwapsOperands ==
    ReverseOperateDone =>
        LET e     == Receiver.expression
            other == OperandTuples[last.value][1] IN
        /\ calls = << Call(last.fn, <<other, e>>) >>
        /\ IF Adaptable(e) /\ Adaptable(other)
           THEN /\ err = NoErr
                /\ out.left = Adapt(other)
                /\ out.right = Adapt(e)
                /\ out.op = last.fn
           ELSE err = InvalidExpressionType

\* 5 + (end - start)
C14_Witness ==
    /\ ReverseOperateDone
    /\ out = Bin("add", BindParameter(PyInt(5)),
                 Bin("sub", QA("Interval", "end"), QA("Interval", "start")))

\* what __clause_element__ of the comparator's expression itself gives
Extraction(e) ==
    CASE e.t = "QueryableAttribute" -> Column(e.cls, e.key)
      [] e.t = "HasClauseElement"   -> e.yields
      [] OTHER                      -> ClauseElementOf(e)

\* the expression is clause-extractable but yields no node, or is neither a
\* node nor clause-extractable
NotAnExpression(e) ==
    IF IsHasClauseElement(e) THEN ~IsColumnElement(Extraction(e))
    ELSE ~IsColumnElement(e)

\* C19 as claimed: for such an expression __clause_element__ fails with
\* InvalidExpressionType and returns nothing.
C19_NonNodeRaises ==
    (ClauseElementDone /\ NotAnExpression(Receiver.expression)) =>
        /\ err = InvalidExpressionType
        /\ out = NoneVal

\* C19, amended: for such an expression __clause_element__ raises nothing and
\* returns the value that is not a node: what the extraction yielded, or the
\* expression itself.
C19_NonNodeReturned ==
    (ClauseElementDone /\ NotAnExpression(Receiver.expression)) =>
        /\ err = NoErr
        /\ ~IsColumnElement(out)
        /\ out = IF IsHasClauseElement(Receiver.expression)
                 THEN Extraction(Receiver.expression)
                 ELSE Receiver.expression

\* an object whose __clause_element__() returns the integer 5
C19_Witness ==
    /\ ClauseElementDone
    /\ Receiver.expression = HasClauseElement(PyInt(5))
    /\ out = PyInt(5)
    /\ err = NoErr

\* C20 as claimed: __clause_element__ returns the extraction when the
\* expression is clause-extractable, and a value that is neither extractable
\* nor a node comes back wrapped as a literal node.
C20_PlainValueWrapped ==
    ClauseElementDone =>
        LET e == Receiver.expression IN
        out = IF IsHasClauseElement(e) THEN Extraction(e)
              ELSE IF IsColumnElement(e) THEN e
              ELSE BindParameter(e)

\* C20, amended: __clause_element__ returns the extraction when the expression
\* is clause-extractable and the expression itself, unchanged, in every other
\* case; it never builds a literal node.
C20_PlainValueUnchanged ==
    ClauseElementDone =>
        LET e == Receiver.expression IN
        /\ IsHasClauseElement(e) => out = Extraction(e)
        /\ ~IsHasClauseElement(e) => out = e
        /\ out.t = "BindParameter" => e.t = "BindParameter"

\* the plain integer 5 comes back as it is
C20_Witness ==
    /\ ClauseElementDone
    /\ Receiver.expression = PyInt(5)
    /\ out = PyInt(5)

\* C17 as claimed: over any sequence of class-level accesses the expression
\* builder, comparator factory or fallback getter is invoked at most once for
\* each distinct owning class.
C17_BuilderOncePerOwner ==
    \A c \in Classes : tally[c].builds <= 1

\* C17, amended: what is memoized, once per descriptor, is the factory, that
\* is the choice among comparator factory, expression builder and fallback
\* getter; the chosen callable is invoked once by every class-level access,
\* with the owner of that access, also when the same owning class is accessed
\* again, and every access builds its view anew.
C17_BuilderOncePerAccess ==
    /\ \A c \in Classes : tally[c].builds = tally[c].accesses
    /\ hybrids[1].memo # NoMemo => hybrids[1].memo = ExprComparatorMemo(hybrids[1])
    /\ ClassGetDone =>
          calls = << Call(ExprComparatorMemo(hybrids[1]).fn, <<ClassRef(last.owner)>>) >>

\* the same owning class accessed for the second time, the builder called
\* for the second time
C17_Witness ==
    /\ ClassGetDone
    /\ tally[last.owner].accesses = 2
    /\ tally[last.owner].builds = 2
    /\ Len(calls) = 1

C22_NoOwnerReturnsSelf ==
    [][(last'.op = "__get__" /\ last'.owner = None) =>
          /\ ret' = HybridRef(last'.h)
          /\ calls' = <<>>
          /\ hybrids' = hybrids
          /\ inst' = inst
          /\ err' = NoErr]_vars

\* __get__(i1, None) on a hybrid not yet accessed at class level
C22_Witness ==
    /\ last.op = "__get__"
    /\ last.owner = None
    /\ last.instance = "i1"
    /\ ret = HybridRef(last.h)
    /\ hybrids[last.h].memo = NoMemo

\* C23: as long as only instance-level operations (and modifying decorators)
\* are performed, no hybrid has a memoized class-level factory, the only
\* callables invoked are the getter, setter or deleter of the hybrid operated
\* on, each with the instance, and nothing returned is a proxy or a comparator.
C23_InstanceOpsLeaveExpressionMachinery ==
    /\ \A h \in 1..Len(hybrids) : hybrids[h].memo = NoMemo
    /\ ret.t \notin {"Proxy", "ExprComparator", "Comparator"}
    /\ out = NoneVal
    /\ \A k \in 1..Len(calls) :
          /\ calls[k].fn \in {hybrids[last.h].fget, hybrids[last.h].fset,
                              hybrids[last.h].fdel}
          /\ calls[k].fn \notin {hybrids[last.h].expr,
                                 hybrids[last.h].custom_comparator}
          /\ calls[k].args[1] = InstanceRef

\* a hybrid with an expression builder attached, read through the instance
\* after a set or delete changed the instance
C23_Witness ==
    /\ InstanceGetDone
    /\ hybrids[last.h].expr # None
    /\ inst.end # 10
    /\ hybrids[last.h].memo = NoMemo
    /\ Len(calls) = 1

\* the hybrid of the scenario: getter end - start, no expression builder and
\* no comparator, the setter and the update-clause builder of the docstring
IsLengthScenario(h) ==
    /\ hybrids[h].fget = "get_length"
    /\ hybrids[h].fset = "set_length"
    /\ hybrids[h].update_expr = "upd_length"
    /\ hybrids[h].expr = None
    /\ hybrids[h].custom_comparator = None

\* C24: for that hybrid, the instance-level value on (start=5, end=10) is 5;
\* setting 12 makes end 17; the class-level expression is end - start over
\* the attributes of the owning class, obtained by calling the getter with
\* the class; and the bulk assignment of 25 gives exactly [(end, start + 25)].
C24_LengthScenario ==
    /\ (InstanceGetDone /\ IsLengthScenario(last.h) /\ inst = [start |-> 5, end |-> 10])
          => ret = PyInt(5)
    /\ (last.op = "__set__" /\ IsLengthScenario(last.h) /\ last.value = 12)
          => (inst = [start |-> 5, end |-> 17] /\ err = NoErr)
    /\ (ClassGetDone /\ IsLengthScenario(last.h))
          => /\ ret.comparator.t = "ExprComparator"
             /\ ret.comparator.expression =
                   Bin("sub", QA(last.owner, "end"), QA(last.owner, "start"))
             /\ calls = << Call("get_length", <<ClassRef(last.owner)>>) >>
    /\ (BulkDone /\ IsLengthScenario(ret.hybrid) /\ last.value = 25)
          => out = PyList(<< <<QA(ret.owner, "end"),
                               Bin("add", QA(ret.owner, "start"), PyInt(25))>> >>)

\* the bulk assignment, made after the instance was set to 12
C24_Witness ==
    /\ BulkDone
    /\ IsLengthScenario(ret.hybrid)
    /\ inst = [start |-> 5, end |-> 17]
    /\ ret.comparator.expression = Bin("sub", QA("Interval", "end"), QA("Interval", "start"))
    /\ out = PyList(<< <<QA("Interval", "end"),
                         Bin("add", QA("Interval", "start"), PyInt(25))>> >>)

\* C28: a hybrid made by a rebind starts without a memoized factory, also
\* when its source has one; the factory any hybrid memoizes is the one chosen
\* from that hybrid's own fields, and a class-level access resolves through
\* it, so the source keeps resolving through the source's fields.
C28_CopyDoesNotInheritMemo ==
    /\ last.op \in RebindOps => hybrids[ret.h].memo = NoMemo
    /\ \A h \in 1..Len(hybrids) :
          hybrids[h].memo \in {NoMemo, ExprComparatorMemo(hybrids[h])}
    /\ ClassGetDone =>
          /\ hybrids[last.h].memo = ExprComparatorMemo(hybrids[last.h])
          /\ calls[1].fn = ExprComparatorMemo(hybrids[last.h]).fn

\* the source was accessed at class level, then given an expression builder;
\* the derived hybrid resolves through the builder, the source through its
\* getter
C28_Witness ==
    /\ ClassGetDone
    /\ last.h = 2
    /\ hybrids[1].memo = [kind |-> "expr", fn |-> "get_length"]
    /\ hybrids[2].memo = [kind |-> "expr", fn |-> "expr_abs_length"]
    /\ ret.comparator.expression.t = "Function"

\* C29: the builder of a class-level access is called with the class the
\* access was made through; the view and its bound comparator record that
\* class, the expression is the one the builder gives for it, and an
\* update-clause builder invoked later through the view receives it too.
C29_OwnerOfAccessIsPassed ==
    /\ ClassGetDone =>
          /\ Len(calls) = 1
          /\ calls[1].args = <<ClassRef(last.owner)>>
          /\ ret.owner = last.owner
          /\ ret.comparator.t = "ExprComparator" =>
                /\ ret.comparator.cls = last.owner
                /\ ret.comparator.expression = CallOnClass(calls[1].fn, last.owner)
          /\ ret.comparator.t = "Comparator" =>
                ret.comparator = CallOnClass(calls[1].fn, last.owner)
    /\ (BulkDone /\ calls # <<>> /\ calls[1].fn \in Updaters) =>
          /\ ret.comparator.cls = ret.owner
          /\ calls[1].args[1] = ClassRef(ret.owner)

\* a hybrid declared in Interval only, read through SubInterval
C29_Witness ==
    /\ ClassGetDone
    /\ last.owner = "SubInterval"
    /\ classDict["Interval"][hybrids[last.h].name] = last.h
    /\ classDict["SubInterval"][hybrids[last.h].name] = 0
    /\ ret.comparator.t = "ExprComparator"
    /\ ret.comparator.cls = "SubInterval"
    /\ calls[1].args = <<ClassRef("SubInterval")>>

\* the update-clause builder called through a view of SubInterval
C29_WitnessBulk ==
    /\ BulkDone
    /\ ret.owner = "SubInterval"
    /\ calls = << Call("upd_length", <<ClassRef("SubInterval"), PyInt(25)>>) >>

GetAttrDone == last.op = "__getattr__"

\* C21 as claimed: reading a name the comparator does not define, info and
\* the documentation included, gives the wrapped expression's value for it.
C21_EveryNameForwarded ==
    (GetAttrDone /\ HasAttr(Receiver.expression, last.fn)) =>
        out = AttrOf(Receiver.expression, last.fn)

\* C21, amended: a name that the normal lookup does not find on the
\* comparator is forwarded to the wrapped expression (and fails as the
\* expression's own lookup fails); info is defined by the comparator and is the
\* info of the originating hybrid, not of the expression; the documentation is
\* that of the comparator's class, which has none.
C21_ForwardedExceptInfoAndDoc ==
    GetAttrDone =>
        LET e == Receiver.expression IN
        /\ last.fn \in {"key", "type"} =>
              IF HasAttr(e, last.fn)
              THEN out = AttrOf(e, last.fn) /\ err = NoErr
              ELSE err = NoAttribute
        /\ last.fn = "info" =>
              out = AttrOf(HybridRef(Receiver.hybrid), "info") /\ err = NoErr
        /\ last.fn = "__doc__" => out = NoneVal /\ err = NoErr

\* info read on a comparator over a mapped attribute, which has an info of
\* its own
C21_Witness ==
    /\ GetAttrDone
    /\ last.fn = "info"
    /\ Receiver.expression = QA("Interval", "start")
    /\ out = AttrOf(HybridRef(1), "info")

\* a forwarded name
C21_WitnessForwarded ==
    /\ GetAttrDone
    /\ last.fn = "key"
    /\ out = AttrOf(Column("Interval", "end"), "key")

\* C26: operate, reverse_operate, _bulk_update_tuples, __clause_element__ and
\* attribute reads leave the comparator they are applied to as it was: its
\* cls, expression and hybrid are those it was constructed with.
C26_ComparatorImmutable ==
    [][last'.op \in {"operate", "reverse_operate", "_bulk_update_tuples",
                     "__getattr__", "__clause_element__"} =>
          /\ Receiver' = Receiver
          /\ ret' = ret]_vars

\* the comparator built for the view is intact after an operator, an
\* attribute read and a bulk assignment were applied to it
C26_Witness ==
    /\ BulkDone
    /\ out.t = "list"
    /\ Receiver = ExprComparator(ret.owner, CallOnClass("get_length", ret.owner), 1)


(***************************************************************************)
(* hybrid_method                                                           *)
(***************************************************************************)
MethodGetDone == last.op = "hybrid_method.__get__"
MethodInitDone == last.op = "hybrid_method.__init__"
MethodExpressionDone == last.op = "hybrid_method.expression"

\* C25: a hybrid_method read through an instance returns the value function
\* bound to that instance; read through a class it returns the expression
\* function bound to the class of the access; and a hybrid_method constructed
\* without an expression function has its value function as expression
\* function, so the class-level read binds the value function to the class.
C25_MethodDispatch ==
    /\ (MethodGetDone /\ last.instance # None) =>
           ret = [t |-> "method", fn |-> methods[last.h].func, self |-> InstanceRef]
    /\ (MethodGetDone /\ last.instance = None) =>
           ret = [t |-> "method", fn |-> methods[last.h].expr,
                  self |-> ClassRef(last.owner)]
    /\ (MethodInitDone /\ last.fn = None) =>
           /\ methods[last.h].expr = methods[last.h].func
           /\ \A c \in Classes :
                  MethodGetOutcome(methods, last.h, None, c) =
                      [t |-> "method", fn |-> methods[last.h].func,
                       self |-> ClassRef(c)]

\* a class-level read of a hybrid_method that has a separate expression
\* function
C25_Witness ==
    /\ MethodGetDone
    /\ last.instance = None
    /\ last.owner = "Interval"
    /\ methods[last.h].func = "contains"
    /\ methods[last.h].expr = "contains_expr"
    /\ ret.fn = "contains_expr"

\* C30: hybrid_method.expression(fn) creates no object and returns the
\* hybrid_method it was called on; afterwards a class-level read of that
\* object through every class binds fn, the instance-level read is what it
\* was, and every other hybrid_method is as it was.
C30_ExpressionInPlace ==
    [][ (last'.op = "hybrid_method.expression" /\ last'.h \in 1..Len(methods)) =>
          /\ Len(methods') = Len(methods)
          /\ ret' = MethodRef(last'.h)
          /\ \A c \in Classes :
                 MethodGetOutcome(methods', last'.h, None, c) =
                     BoundMethod(last'.fn, ClassRef(c))
          /\ MethodGetOutcome(methods', last'.h, "i1", InstanceClass) =
                 MethodGetOutcome(methods, last'.h, "i1", InstanceClass)
          /\ \A m \in 1..Len(methods) : m # last'.h => methods'[m] = methods[m]
      ]_vars

\* expression() has replaced the expression function of a hybrid_method by a
\* function that is not its value function
C30_Witness ==
    /\ MethodExpressionDone
    /\ methods[last.h].func = "contains"
    /\ methods[last.h].expr = "intersects"
    /\ ret = MethodRef(last.h)


(***************************************************************************)
(* Class-level access from inside a builder                                *)
(***************************************************************************)
\* the hybrid the builder of frame f reads (None: no other hybrid)
FrameDep(f) ==
    IF hybrids[f.h].memo.kind = "expr" THEN DependsOn(hybrids[f.h].memo.fn) ELSE None

\* the view of owner.name for hybrid h, the builders calling one another
\* directly
RECURSIVE NestedViewOf(_, _, _, _)
NestedViewOf(hs, cd, h, owner) ==
    LET memo == MemoAfter(hs[h])
        dep  == IF memo.kind = "expr" THEN DependsOn(memo.fn) ELSE None IN
    NestedExprComparatorCall(cd, hs[h], memo, h, owner,
        IF dep = None THEN NoneVal
        ELSE NestedViewOf(hs, cd, ClassAttr(cd, owner, dep), owner))

\* no access in progress is stuck, none is entered twice, only the innermost
\* one runs, and a builder goes on only with the finished view of the hybrid
\* it read; the result of the outermost access is the view built from the
\* finished views of the hybrids below it
C27_NestedInv ==
    /\ stack # <<>> => ENABLED NStep
    /\ Len(stack) <= Len(hybrids)
    /\ \A j, k \in 1..Len(stack) : j # k => stack[j].h # stack[k].h
    /\ \A k \in 1..Len(stack) :
          /\ (k < Len(stack)) <=> (stack[k].pc = "wait")
          /\ (k < Len(stack)) =>
                 /\ stack[k + 1].owner = stack[k].owner
                 /\ stack[k + 1].h =
                        ClassAttr(classDict, stack[k].owner, FrameDep(stack[k]))
          /\ (stack[k].pc = "return" /\ FrameDep(stack[k]) # None) =>
                 /\ stack[k].inner.t = "Proxy"
                 /\ stack[k].inner.owner = stack[k].owner
                 /\ stack[k].inner.hybrid =
                        ClassAttr(classDict, stack[k].owner, FrameDep(stack[k]))
                 /\ stack[k].inner.comparator.t = "ExprComparator"
                 /\ IsColumnElement(stack[k].inner.comparator.expression)
    /\ (stack = <<>> /\ last.op = "__get__") =>
           ret = NestedViewOf(hybrids, classDict, last.h, last.owner)

\* C27: a class-level access whose builder (expression builder or fallback
\* getter) reads another hybrid of the same class, along any chain without a
\* cycle, is never stuck and completes, and a builder receives the finished
\* view of the hybrid it read before its own view is returned.
C27_NestedAccessCompletes ==
    /\ []C27_NestedInv
    /\ (stack # <<>>) ~> (stack = <<>>)

\* SubInterval.diameter has been read: its builder read radius, whose builder
\* read length, and the view holds the expression over all three
C27_Witness ==
    /\ stack = <<>>
    /\ last.op = "__get__"
    /\ last.h = 3
    /\ last.owner = "SubInterval"
    /\ Len(calls) = 3
    /\ ret.t = "Proxy"
    /\ ret.hybrid = 3
    /\ ret.comparator.expression.t = "BinaryExpression"
    /\ ret.comparator.expression.left.t = "BinaryExpression"

====
